---- MODULE Spec2Model ----
(***************************************************************************)
(* Reactive render / update / destroy lifecycle of the pie-chart widgets   *)
(* of mantuonweb/chart.                                                    *)
(*                                                                         *)
(*   "d3"          D3PieComponent, effect-based revision                   *)
(*                 (src/src/app/d3-pie/d3-pie.component.spec.ts:52-276)    *)
(*   "d3OnChanges" D3PieComponent, ngOnChanges revision                    *)
(*                 (src/unnamed/part_003)                                  *)
(*   "chartjs"     ChartjsPieComponent                                     *)
(*                 (src/src/app/chartjs-pie/chartjs-pie.component.ts)      *)
(*                                                                         *)
(* The host mounts one widget (kind).  All work runs on the UI event loop: *)
(* a change-detection tick writes input signals, runs the dirty redraw     *)
(* routine and the after-render callbacks to completion; pointer events    *)
(* are dispatched between ticks.                                           *)
(***************************************************************************)
EXTENDS Integers, Sequences, FiniteSets, TLC

\* ---------------------------------------------------------------- bounds
MaxSlices == 2      \* longest data sequence the host binds
MaxChanges == 2     \* input writes made by the host over the widget's life
MaxClicks == 1      \* pointer clicks made by the user
MaxTeardowns == 2   \* calls of ngOnDestroy
MaxProbeLen == 3    \* longest dataset of the inline-label specification

\* ------------------------------------------------------ program constants
DefaultSize == 300          \* width = input(300), height = input(300)
ArcMargin == 10             \* outerRadius(radius - 10)
MinSharePct == 5            \* return percentage >= 5
PaletteSize == 10           \* d3.schemeCategory10

NoColor == "undefined"      \* a slice without the optional color field

Kinds == {"d3", "d3OnChanges", "chartjs"}

LabelFormats == {"label", "value", "percentage", "label-value", "label-percentage"}

\* d3.schemeCategory10
Palette ==
  << "#1f77b4", "#ff7f0e", "#2ca02c", "#d62728", "#9467bd",
     "#8c564b", "#e377c2", "#7f7f7f", "#bcbd22", "#17becf" >>

\* Outcomes of Math.random() in getRandomColor, abstracted to two colours.
RandomColors == {"#0a0b0c", "#d0e0f0"}

\* Slices the host binds in the lifecycle specification.
Slices ==
  { [label |-> "A", value |-> 30, color |-> "#ff0000"],
    [label |-> "B", value |-> 50, color |-> NoColor] }

\* Values of the slices of the inline-label specification.
ProbeValues == {0, 1, 19, 20, 30, 50}

SeqsUpTo(S, n) == UNION { [1..k -> S] : k \in 0..n }

DataSeqs == SeqsUpTo(Slices, MaxSlices)
Widths == {DefaultSize, 400}
Heights == {DefaultSize, 400}
Titles == {"", "Sales"}

\* ----------------------------------------------------------------- state
VARIABLES
  kind,            \* which component class the host mounted
  inputs,          \* current values of the input signals
  chartContainer,  \* viewChild('chart') resolved to an element
  phase,           \* "tick" inside a change-detection tick, else "idle"
  dirty,           \* the redraw routine is scheduled (effect dirty / ngOnChanges due)
  deps,            \* signals read by the last run of the effect
  svg,             \* SVG widget: node tree under the <svg> element
  chart,           \* canvas widget: this.chart, <<>> for null
  subscribed,      \* canvas widget: the fromEvent click subscription is live
  initOutcome,     \* canvas widget: result of the initChart attempt
  instances,       \* number of Chart instances ever constructed
  chartDestroys,   \* number of chart.destroy() calls
  canvasLabels,    \* inline labels the datalabels plugin drew
  lastRender,      \* inputs read by the most recent render, <<>> before it
  routine,         \* the last step ran the redraw routine or initChart and
                   \* "drew" on the surface or "skipped"; else "none"
  runsSinceChange, \* runs of the redraw routine since it was last scheduled
  writes,          \* input writes so far
  clicks,          \* pointer clicks dispatched so far
  click,           \* the pointer click the last step dispatched, if any
  emitted,         \* payloads the last step emitted on segmentClick / arcClick
  teardowns,       \* calls of ngOnDestroy so far
  threw            \* an exception escaped a handler

vars ==
  << kind, inputs, chartContainer, phase, dirty, deps, svg, chart, subscribed,
     initOutcome, instances, chartDestroys, canvasLabels, lastRender, routine,
     runsSinceChange, writes, clicks, click, emitted, teardowns, threw >>

destroyed == teardowns > 0

\* ------------------------------------------------------ arithmetic helpers
RECURSIVE SumSeq(_)
SumSeq(s) == IF s = <<>> THEN 0 ELSE Head(s) + SumSeq(Tail(s))

Min(a, b) == IF a < b THEN a ELSE b

\* Math.round(num / den) for num >= 0, den > 0 (halves round up).
MathFloor(num, den) == num \div den

MathRound(num, den) == (2 * num + den) \div (2 * den)

\* data.map(item => item.label), data.map(item => item.value)
MapLabel(data) == [i \in 1..Len(data) |-> data[i].label]

MapValue(data) == [i \in 1..Len(data) |-> data[i].value]

\* ----------------------------------------------------------- input signals
DefaultInputs ==
  [ data |-> <<>>, width |-> DefaultSize, height |-> DefaultSize, title |-> "",
    showLegend |-> FALSE, showInlineLabels |-> TRUE, labelFormat |-> "label" ]

\* Inputs each component class declares.
InputNames(k) ==
  IF k = "chartjs"
  THEN {"data", "width", "height", "title", "showLegend", "showInlineLabels", "labelFormat"}
  ELSE {"data", "width", "height"}

InputDomain(name) ==
  CASE name = "data" -> DataSeqs
    [] name = "width" -> Widths
    [] name = "height" -> Heights
    [] name = "title" -> Titles
    [] name = "showLegend" -> BOOLEAN
    [] name = "showInlineLabels" -> BOOLEAN
    [] name = "labelFormat" -> LabelFormats

\* ------------------------------------------------------------- SVG widget
\* d3.pie(): arcs stay in input order, index is the position of the datum
\* after the default sort by descending value (stable on ties).
PieIndex(data, i) ==
  Cardinality({ j \in 1..Len(data) :
                  \/ data[j].value > data[i].value
                  \/ data[j].value = data[i].value /\ j < i })

\* d3.scaleOrdinal(d3.schemeCategory10): an unseen key joins the domain and
\* takes the next colour of the range.
color(domain, key) ==
  LET dom == IF \E p \in 1..Len(domain) : domain[p] = key
             THEN domain ELSE Append(domain, key)
      pos == CHOOSE p \in 1..Len(dom) : dom[p] = key
  IN [domain |-> dom, value |-> Palette[((pos - 1) % PaletteSize) + 1]]

\* Keys the scale has seen when the fill of arc i is computed: the fill
\* callback runs for i = 0, 1, ... and calls color only for a datum without
\* a colour of its own.
SeenBefore(data, i) ==
  LET keys == { j \in 1..(i - 1) : data[j].color = NoColor }
  IN [ p \in 1..Cardinality(keys) |->
         (CHOOSE j \in keys : Cardinality({ k \in keys : k < j }) = p - 1) - 1 ]

\* .attr('fill', (d, i) => d.data.color ?? color(i.toString())), i = 0, 1, ...
Fills(data) ==
  [ domain |-> SeenBefore(data, Len(data) + 1),
    fills |-> [ i \in 1..Len(data) |->
                  IF data[i].color # NoColor THEN data[i].color
                  ELSE color(SeenBefore(data, i), i - 1).value ] ]

\* Event types with a listener on the <path> and on the <text> of an arc.
PathListeners(rev) ==
  IF rev = "d3" THEN {"click", "mouseover", "mouseout", "mousemove"}
  ELSE {"click", "mouseover", "mouseout"}

TextListeners_pathOnly(rev) == {}

TextListeners(rev) ==
  IF rev = "d3" THEN {"click", "mouseover", "mouseout", "mousemove"}
  ELSE {}

\* The <g> appended by one drawChart call, with one arc group per datum.
ArcGroup(in, rev) ==
  LET f == Fills(in.data)
  IN [ transform |-> << in.width \div 2, in.height \div 2 >>,
       radius |-> Min(in.width, in.height) \div 2 - ArcMargin,
       domain |-> f.domain,
       arcs |-> [ i \in 1..Len(in.data) |->
                  [ datum |-> in.data[i],
                    index |-> PieIndex(in.data, i),
                    fill |-> f.fills[i],
                    text |-> in.data[i].label,
                    stroke |-> "none",
                    pathOn |-> PathListeners(rev),
                    textOn |-> TextListeners(rev),
                    fresh |-> TRUE ] ] ]

\* Elements present before a render are no longer fresh after it.
Aged(sv) ==
  [ g \in 1..Len(sv) |->
      [ sv[g] EXCEPT !.arcs = [ j \in 1..Len(sv[g].arcs) |->
                                  [ sv[g].arcs[j] EXCEPT !.fresh = FALSE ] ] ] ]

RemoveAll_keepChildren(sv) == sv

\* svg.selectAll('*').remove()
RemoveAll(sv) == <<>>

\* svg.append('g') with its arc groups
AppendGroup(sv, g) == Append(Aged(sv), g)

\* drawChart: skip without a surface, else clear the svg and redraw.
drawChart(ref, sv, in, rev) ==
  IF ~ref THEN [svg |-> sv, drew |-> FALSE, threw |-> FALSE]
  ELSE [svg |-> AppendGroup(RemoveAll(sv), ArcGroup(in, rev)),
        drew |-> TRUE, threw |-> FALSE]

DrawChartReads_untracked(ref) ==
  IF ~ref THEN {}
  ELSE {"chartContainer", "width", "height", "data"}

\* Signals the chartEffect run reads (drawChart returns after chartContainer()
\* when it is undefined).
DrawChartReads(ref) ==
  IF ~ref THEN {"chartContainer"}
  ELSE {"chartContainer", "width", "height", "data"}

ngOnDestroySvg_keepChildren(ref, sv) == sv

\* D3PieComponent.ngOnDestroy
ngOnDestroySvg(ref, sv) == IF ref THEN RemoveAll(sv) ELSE sv

\* Arcs on the drawing surface, over all groups.
RECURSIVE SvgArcs(_)
SvgArcs(sv) == IF sv = <<>> THEN <<>> ELSE Head(sv).arcs \o SvgArcs(Tail(sv))

\* .on('click', (event, d) => this.arcClick.emit(d.data)) on path and text
svgClickHandler(arc, part) ==
  LET on == IF part = "path" THEN arc.pathOn ELSE arc.textOn
  IN IF "click" \in on THEN << arc.datum >> ELSE <<>>

\* Listeners of one part of an arc.
ListenersOf(arc, part) == IF part = "path" THEN arc.pathOn ELSE arc.textOn

\* .on('mouseover', ...) on path and text: the <path> of the arc gets
\* .attr('stroke', d.data.color ?? color(d.index.toString())); the call of the
\* scale may extend its domain.
mouseoverHandler(group, j, part) ==
  LET arc == group.arcs[j]
      c == IF arc.datum.color # NoColor
           THEN [domain |-> group.domain, value |-> arc.datum.color]
           ELSE color(group.domain, arc.index)
  IN IF "mouseover" \in ListenersOf(arc, part)
     THEN [group EXCEPT !.domain = c.domain, !.arcs[j].stroke = c.value]
     ELSE group

\* .on('mouseout', ...) on path and text: .attr('stroke', null) on the <path>
mouseoutHandler(group, j, part) ==
  IF "mouseout" \in ListenersOf(group.arcs[j], part)
  THEN [group EXCEPT !.arcs[j].stroke = "none"]
  ELSE group

\* ---------------------------------------------------------- canvas widget
\* NaN, the value of 0 / 0 (all dataset values are zero).
NaN == -1

\* Template-literal conversion of a number.
NumText(n) == IF n = NaN THEN "NaN" ELSE ToString(n)

Num(n) == [type |-> "number", num |-> n, str |-> ""]
Str(t) == [type |-> "string", num |-> 0, str |-> t]

\* Outcomes of data.map(item => item.color || this.getRandomColor()).
BackgroundColors(data) ==
  { bc \in [1..Len(data) -> RandomColors \cup { s.color : s \in Slices }] :
      \A i \in 1..Len(data) :
        IF data[i].color # NoColor THEN bc[i] = data[i].color
        ELSE bc[i] \in RandomColors }

\* getChartConfig, for the background colours bc drawn in this call.
getChartConfig(in, bc) ==
  [ data |-> [ labels |-> MapLabel(in.data),
               values |-> MapValue(in.data),
               backgroundColor |-> bc ],
    options |-> [ legendDisplay |-> in.showLegend,
                  titleDisplay |-> in.title # "",
                  titleText |-> in.title,
                  showInlineLabels |-> in.showInlineLabels,
                  labelFormat |-> in.labelFormat ] ]

\* Math.round((value / total) * 100)
percentage_floor(value, total) ==
  IF total = 0 THEN NaN ELSE MathFloor(value * 100, total)

percentage(value, total) ==
  IF total = 0 THEN NaN ELSE MathRound(value * 100, total)

\* datalabels.formatter(value, context) of a chart with these labels, dataset
\* values and captured labelFormat; i is context.dataIndex + 1.
formatter(value, i, labels, values, fmt) ==
  LET label == labels[i]
      total == SumSeq(values)
      pct == percentage(value, total)
  IN CASE fmt = "value" -> Num(value)
       [] fmt = "percentage" -> Str(NumText(pct) \o "%")
       [] fmt = "label-value" -> Str(label \o ": " \o NumText(value))
       [] fmt = "label-percentage" -> Str(label \o ": " \o NumText(pct) \o "%")
       [] OTHER -> Str(label)

display_strict(show, i, values) ==
  IF ~show THEN FALSE
  ELSE LET total == SumSeq(values)
       IN IF total = 0 THEN FALSE
          ELSE 100 * values[i] > MinSharePct * total

\* datalabels.display(context); NaN >= 5 is false.
display(show, i, values) ==
  IF ~show THEN FALSE
  ELSE LET total == SumSeq(values)
       IN IF total = 0 THEN FALSE
          ELSE 100 * values[i] >= MinSharePct * total

\* What the datalabels plugin draws for a chart instance.
DataLabels(ch) ==
  [ i \in 1..Len(ch.data.values) |->
      [ shown |-> display(ch.options.showInlineLabels, i, ch.data.values),
        text |-> formatter(ch.data.values[i], i, ch.data.labels, ch.data.values,
                           ch.options.labelFormat) ] ]

\* new Chart(ctx, config)
NewChart(id, cfg) ==
  [id |-> id, data |-> cfg.data, options |-> cfg.options, updated |-> FALSE]

initChart_noContextCheck(ref, ctxOk, cfg, made) ==
  IF ~ref THEN [chart |-> <<>>, subscribed |-> FALSE, threw |-> FALSE]
  ELSE [chart |-> << NewChart(made + 1, cfg) >>, subscribed |-> TRUE, threw |-> FALSE]

\* initChart: give up without the canvas or its 2D context, else subscribe
\* to canvas clicks and construct the chart.
initChart(ref, ctxOk, cfg, made) ==
  IF ~ref THEN [chart |-> <<>>, subscribed |-> FALSE, threw |-> FALSE]
  ELSE IF ~ctxOk THEN [chart |-> <<>>, subscribed |-> FALSE, threw |-> FALSE]
  ELSE [chart |-> << NewChart(made + 1, cfg) >>, subscribed |-> TRUE, threw |-> FALSE]

updateChart_recreate(ch, cfg) ==
  IF ch = <<>> THEN <<>>
  ELSE << NewChart(ch[1].id + 1, cfg) >>

updateChart_keepOptions(ch, cfg) ==
  IF ch = <<>> THEN <<>>
  ELSE << [ch[1] EXCEPT !.data = cfg.data, !.updated = TRUE] >>

\* updateChart: nothing without a chart, else replace data and options of
\* the existing instance and call update().
updateChart(ch, cfg) ==
  IF ch = <<>> THEN <<>>
  ELSE << [ch[1] EXCEPT !.data = cfg.data, !.options = cfg.options, !.updated = TRUE] >>

\* Signals the constructor effect reads before calling updateChart.
CanvasEffectReads ==
  {"data", "width", "height", "title", "showLegend", "showInlineLabels", "labelFormat"}

canvasClickHandler_nextIndex(ch, hit, data) ==
  IF ch = <<>> THEN <<>>
  ELSE IF hit = 0 THEN <<>>
  ELSE IF hit + 1 > Len(data) THEN <<>>
  ELSE << data[hit + 1] >>

\* The click subscriber of initChart; hit = 0 when points is empty, else
\* points[0].index + 1.
canvasClickHandler(ch, hit, data) ==
  IF ch = <<>> THEN <<>>
  ELSE IF hit = 0 THEN <<>>
  ELSE IF hit > Len(data) THEN <<>>
  ELSE << data[hit] >>

ngOnDestroyChart_noGuard(ch) ==
  IF ch # <<>> THEN [chart |-> <<>>, destroyCalls |-> 1, threw |-> FALSE]
  ELSE [chart |-> ch, destroyCalls |-> 0, threw |-> TRUE]

\* ChartjsPieComponent.ngOnDestroy: if (this.chart) { destroy(); chart = null }
ngOnDestroyChart(ch) ==
  IF ch # <<>> THEN [chart |-> <<>>, destroyCalls |-> 1, threw |-> FALSE]
  ELSE [chart |-> ch, destroyCalls |-> 0, threw |-> FALSE]


\* ------------------------------------------------------------------- Init
NoClick == [part |-> "none", group |-> 0, hit |-> 0, dead |-> FALSE]

\* A widget of one of the component classes right after construction: inputs
\* at their defaults, the effect created and due for its first run, the
\* first change detection about to bind the host's values.
Init ==
  /\ kind \in Kinds
  /\ inputs = DefaultInputs
  /\ chartContainer = FALSE
  /\ phase = "tick"
  /\ dirty = (kind # "d3OnChanges")
  /\ deps = {}
  /\ svg = <<>>
  /\ chart = <<>>
  /\ subscribed = FALSE
  /\ initOutcome = IF kind = "chartjs" THEN "pending" ELSE "none"
  /\ instances = 0
  /\ chartDestroys = 0
  /\ canvasLabels = <<>>
  /\ lastRender = <<>>
  /\ routine = "none"
  /\ runsSinceChange = 0
  /\ writes = 0
  /\ clicks = 0
  /\ click = NoClick
  /\ emitted = <<>>
  /\ teardowns = 0
  /\ threw = FALSE

\* ---------------------------------------------------------------- actions
\* The step dispatches no pointer click and emits nothing.
Quiet == click' = NoClick /\ emitted' = <<>>

\* A write of signal `name` schedules the redraw routine: the effect when it
\* read the signal in its last run, ngOnChanges on every input change.
Schedules(name) ==
  IF kind = "d3OnChanges" THEN name # "chartContainer"
  ELSE name \in deps

\* The host's binding writes a new value to one input signal.
SetInput(name, v) ==
  /\ writes < MaxChanges
  /\ ~destroyed
  /\ name \in InputNames(kind)
  /\ v \in InputDomain(name)
  /\ v # inputs[name]
  /\ inputs' = [inputs EXCEPT ![name] = v]
  /\ writes' = writes + 1
  /\ phase' = "tick"
  /\ dirty' = (dirty \/ Schedules(name))
  /\ runsSinceChange' = IF Schedules(name) THEN 0 ELSE runsSinceChange
  /\ routine' = "none"
  /\ Quiet
  /\ UNCHANGED << kind, chartContainer, deps, svg, chart, subscribed, initOutcome,
                  instances, chartDestroys, canvasLabels, lastRender, clicks, teardowns, threw >>

\* The view query resolves: chartContainer() now returns the element.
ResolveViewQuery ==
  /\ ~chartContainer
  /\ ~destroyed
  /\ chartContainer' = TRUE
  /\ phase' = "tick"
  /\ dirty' = (dirty \/ Schedules("chartContainer"))
  /\ runsSinceChange' = IF Schedules("chartContainer") THEN 0 ELSE runsSinceChange
  /\ routine' = "none"
  /\ Quiet
  /\ UNCHANGED << kind, inputs, deps, svg, chart, subscribed, initOutcome, instances,
                  chartDestroys, canvasLabels, lastRender, writes, clicks, teardowns, threw >>

\* One invocation of the SVG widget's redraw routine.
Redraw(rev) ==
  LET r == drawChart(chartContainer, svg, inputs, rev)
  IN /\ svg' = r.svg
     /\ routine' = IF r.drew THEN "drew" ELSE "skipped"
     /\ lastRender' = IF r.drew THEN << inputs >> ELSE lastRender
     /\ threw' = (threw \/ r.threw)
     /\ runsSinceChange' = runsSinceChange + 1
     /\ dirty' = FALSE

\* chartEffect = effect(() => this.drawChart())
ChartEffect ==
  /\ kind = "d3"
  /\ dirty
  /\ ~destroyed
  /\ phase = "tick"
  /\ Redraw("d3")
  /\ deps' = DrawChartReads(chartContainer)
  /\ Quiet
  /\ UNCHANGED << kind, inputs, chartContainer, phase, chart, subscribed, initOutcome,
                  instances, chartDestroys, canvasLabels, writes, clicks, teardowns >>

\* ngOnChanges() { this.drawChart(); }
NgOnChanges ==
  /\ kind = "d3OnChanges"
  /\ dirty
  /\ ~destroyed
  /\ phase = "tick"
  /\ Redraw("d3OnChanges")
  /\ Quiet
  /\ UNCHANGED << kind, inputs, chartContainer, phase, deps, chart, subscribed,
                  initOutcome, instances, chartDestroys, canvasLabels, writes, clicks, teardowns >>

\* The constructor effect of the canvas widget: read every input, updateChart.
CanvasEffect ==
  /\ kind = "chartjs"
  /\ dirty
  /\ ~destroyed
  /\ phase = "tick"
  /\ \E bc \in BackgroundColors(inputs.data) :
       LET next == updateChart(chart, getChartConfig(inputs, bc))
       IN /\ chart' = next
          /\ instances' = IF next # <<>> /\ next[1].id > instances
                          THEN next[1].id ELSE instances
          /\ routine' = IF next # <<>> THEN "drew" ELSE "skipped"
          /\ lastRender' = IF next # <<>> THEN << inputs >> ELSE lastRender
          /\ canvasLabels' = IF next # <<>> THEN DataLabels(next[1]) ELSE canvasLabels
  /\ deps' = CanvasEffectReads
  /\ dirty' = FALSE
  /\ runsSinceChange' = runsSinceChange + 1
  /\ Quiet
  /\ UNCHANGED << kind, inputs, chartContainer, phase, svg, subscribed, initOutcome,
                  chartDestroys, writes, clicks, teardowns, threw >>

\* afterNextRender(() => this.initChart()): once, after the first render.
AfterNextRender ==
  /\ kind = "chartjs"
  /\ initOutcome = "pending"
  /\ ~destroyed
  /\ phase = "tick"
  /\ \E ctxOk \in BOOLEAN : \E bc \in BackgroundColors(inputs.data) :
       LET r == initChart(chartContainer, ctxOk, getChartConfig(inputs, bc), instances)
       IN /\ chart' = r.chart
          /\ subscribed' = r.subscribed
          /\ threw' = (threw \/ r.threw)
          /\ initOutcome' = IF chartContainer /\ ctxOk THEN "ok" ELSE "failed"
          /\ instances' = IF r.chart # <<>> THEN instances + 1 ELSE instances
          /\ routine' = IF r.chart # <<>> THEN "drew" ELSE "skipped"
          /\ lastRender' = IF r.chart # <<>> THEN << inputs >> ELSE lastRender
          /\ canvasLabels' = IF r.chart # <<>> THEN DataLabels(r.chart[1]) ELSE canvasLabels
  /\ Quiet
  /\ UNCHANGED << kind, inputs, chartContainer, phase, dirty, deps, svg, chartDestroys,
                  runsSinceChange, writes, clicks, teardowns >>

\* The tick ends when the scheduled work has run to completion.
EndTick ==
  /\ phase = "tick"
  /\ destroyed \/ (~dirty /\ initOutcome # "pending")
  /\ phase' = "idle"
  /\ routine' = "none"
  /\ Quiet
  /\ UNCHANGED << kind, inputs, chartContainer, dirty, deps, svg, chart, subscribed,
                  initOutcome, instances, chartDestroys, canvasLabels, lastRender,
                  runsSinceChange, writes, clicks, teardowns, threw >>

\* A pointer click is dispatched on the canvas (one that was queued before
\* a teardown arrives after it); the hit test of the chart returns no point
\* (0) or one of its rendered points.
CanvasClick ==
  /\ kind = "chartjs"
  /\ clicks < MaxClicks
  /\ phase = "idle"
  /\ \E hit \in 0..(IF chart # <<>> THEN Len(chart[1].data.values) ELSE 0) :
       /\ click' = [part |-> "canvas", group |-> 0, hit |-> hit, dead |-> destroyed]
       /\ emitted' = IF subscribed
                     THEN canvasClickHandler(chart, hit, inputs.data)
                     ELSE <<>>
  /\ clicks' = clicks + 1
  /\ routine' = "none"
  /\ UNCHANGED << kind, inputs, chartContainer, phase, dirty, deps, svg, chart,
                  subscribed, initOutcome, instances, chartDestroys, canvasLabels,
                  lastRender, runsSinceChange, writes, teardowns, threw >>

\* A pointer click is dispatched on the svg: on the <path> or the <text> of an
\* arc still in the tree, or on no arc at all.
SvgClick ==
  /\ kind \in {"d3", "d3OnChanges"}
  /\ clicks < MaxClicks
  /\ phase = "idle"
  /\ \/ /\ click' = [part |-> "none", group |-> 0, hit |-> 0, dead |-> destroyed]
        /\ emitted' = <<>>
     \/ \E g \in 1..Len(svg) : \E j \in 1..Len(svg[g].arcs) : \E part \in {"path", "text"} :
          /\ click' = [part |-> part, group |-> g, hit |-> j, dead |-> destroyed]
          /\ emitted' = svgClickHandler(svg[g].arcs[j], part)
  /\ clicks' = clicks + 1
  /\ routine' = "none"
  /\ UNCHANGED << kind, inputs, chartContainer, phase, dirty, deps, svg, chart,
                  subscribed, initOutcome, instances, chartDestroys, canvasLabels,
                  lastRender, runsSinceChange, writes, teardowns, threw >>

\* The pointer enters the <path> or the <text> of an arc in the tree; it is
\* over no other arc, whose mouseout the browser dispatches first.
MouseOver ==
  /\ kind \in {"d3", "d3OnChanges"}
  /\ phase = "idle"
  /\ \A g \in 1..Len(svg) : \A j \in 1..Len(svg[g].arcs) : svg[g].arcs[j].stroke = "none"
  /\ \E g \in 1..Len(svg) : \E j \in 1..Len(svg[g].arcs) : \E part \in {"path", "text"} :
       /\ "mouseover" \in ListenersOf(svg[g].arcs[j], part)
       /\ svg' = [svg EXCEPT ![g] = mouseoverHandler(svg[g], j, part)]
  /\ routine' = "none"
  /\ Quiet
  /\ UNCHANGED << kind, inputs, chartContainer, phase, dirty, deps, chart, subscribed,
                  initOutcome, instances, chartDestroys, canvasLabels, lastRender,
                  runsSinceChange, writes, clicks, teardowns, threw >>

\* The pointer leaves the arc it highlighted.
MouseOut ==
  /\ kind \in {"d3", "d3OnChanges"}
  /\ phase = "idle"
  /\ \E g \in 1..Len(svg) : \E j \in 1..Len(svg[g].arcs) : \E part \in {"path", "text"} :
       /\ svg[g].arcs[j].stroke # "none"
       /\ "mouseout" \in ListenersOf(svg[g].arcs[j], part)
       /\ svg' = [svg EXCEPT ![g] = mouseoutHandler(svg[g], j, part)]
  /\ routine' = "none"
  /\ Quiet
  /\ UNCHANGED << kind, inputs, chartContainer, phase, dirty, deps, chart, subscribed,
                  initOutcome, instances, chartDestroys, canvasLabels, lastRender,
                  runsSinceChange, writes, clicks, teardowns, threw >>

\* ngOnDestroy; with the component its effect, its after-render callback and
\* its takeUntilDestroyed subscriptions end.
NgOnDestroy ==
  /\ teardowns < MaxTeardowns
  /\ teardowns' = teardowns + 1
  /\ IF kind = "chartjs"
     THEN LET r == ngOnDestroyChart(chart)
          IN /\ chart' = r.chart
             /\ chartDestroys' = chartDestroys + r.destroyCalls
             /\ canvasLabels' = <<>>
             /\ threw' = (threw \/ r.threw)
             /\ svg' = svg
     ELSE /\ svg' = ngOnDestroySvg(chartContainer, svg)
          /\ UNCHANGED << chart, chartDestroys, canvasLabels, threw >>
  /\ subscribed' = FALSE
  /\ routine' = "none"
  /\ Quiet
  /\ UNCHANGED << kind, inputs, chartContainer, phase, dirty, deps, initOutcome,
                  instances, lastRender, runsSinceChange, writes, clicks >>

Next ==
  \/ \E name \in CanvasEffectReads : \E v \in InputDomain(name) : SetInput(name, v)
  \/ ResolveViewQuery
  \/ ChartEffect
  \/ NgOnChanges
  \/ CanvasEffect
  \/ AfterNextRender
  \/ EndTick
  \/ CanvasClick
  \/ SvgClick
  \/ MouseOver
  \/ MouseOut
  \/ NgOnDestroy

Spec == Init /\ [][Next]_vars


\* ------------------------------------------- SVG widget, with its scheduling
InitSvg == Init /\ kind \in {"d3", "d3OnChanges"}

NextSvg ==
  \/ \E name \in {"data", "width", "height"} : \E v \in InputDomain(name) : SetInput(name, v)
  \/ ResolveViewQuery
  \/ ChartEffect
  \/ NgOnChanges
  \/ EndTick
  \/ SvgClick
  \/ NgOnDestroy

\* The scheduler runs a scheduled redraw routine before the tick ends.
FairSpecSvg ==
  InitSvg /\ [][NextSvg]_vars /\ WF_vars(ChartEffect) /\ WF_vars(NgOnChanges)

\* ------------------------------------------------ inline labels of a chart
ProbeLabels == << "A", "B", "C", "D", "E" >>

ProbeFormats == LabelFormats \cup {"other"}

\* Datasets of the inline-label specification: any values, labels by position.
ProbeData ==
  { [ i \in 1..Len(vs) |-> [label |-> ProbeLabels[i], value |-> vs[i], color |-> "#ff0000"] ] :
      vs \in SeqsUpTo(ProbeValues, MaxProbeLen) }

\* A canvas widget whose chart was constructed from the bound inputs and
\* whose datalabels plugin has not drawn yet.
InitLabels ==
  /\ kind = "chartjs"
  /\ \E d \in ProbeData : \E fmt \in ProbeFormats : \E show \in BOOLEAN :
       inputs = [DefaultInputs EXCEPT !.data = d, !.labelFormat = fmt,
                                      !.showInlineLabels = show]
  /\ chartContainer = TRUE
  /\ phase = "tick"
  /\ dirty = FALSE
  /\ deps = CanvasEffectReads
  /\ svg = <<>>
  /\ chart = << NewChart(1, getChartConfig(inputs, [i \in 1..Len(inputs.data) |-> "#ff0000"])) >>
  /\ subscribed = TRUE
  /\ initOutcome = "ok"
  /\ instances = 1
  /\ chartDestroys = 0
  /\ canvasLabels = <<>>
  /\ lastRender = << inputs >>
  /\ routine = "drew"
  /\ runsSinceChange = 1
  /\ writes = 0
  /\ clicks = 0
  /\ click = NoClick
  /\ emitted = <<>>
  /\ teardowns = 0
  /\ threw = FALSE

\* The plugin evaluates display and formatter for the next data index.
DrawDataLabel ==
  /\ chart # <<>>
  /\ Len(canvasLabels) < Len(chart[1].data.values)
  /\ canvasLabels' = Append(canvasLabels, DataLabels(chart[1])[Len(canvasLabels) + 1])
  /\ UNCHANGED << kind, inputs, chartContainer, phase, dirty, deps, svg, chart,
                  subscribed, initOutcome, instances, chartDestroys, lastRender,
                  routine, runsSinceChange, writes, clicks, click, emitted,
                  teardowns, threw >>

NextLabels == DrawDataLabel

SpecLabels == InitLabels /\ [][NextLabels]_vars

\* ------------------------------------------------------------ claim C1
SegmentsMatch(data) ==
  IF kind = "chartjs"
  THEN /\ chart # <<>>
       /\ Len(chart[1].data.values) = Len(data)
       /\ Len(chart[1].data.labels) = Len(data)
       /\ Len(chart[1].data.backgroundColor) = Len(data)
       /\ \A i \in 1..Len(data) :
            /\ chart[1].data.labels[i] = data[i].label
            /\ chart[1].data.values[i] = data[i].value
  ELSE LET arcs == SvgArcs(svg)
       IN /\ Len(arcs) = Len(data)
          /\ \A j \in 1..Len(arcs) : arcs[j].fresh /\ arcs[j].datum = data[j]

\* C1: while the widget lives, after any render the drawing surface holds
\* exactly one segment per entry of the data the most recent render read, in
\* order, and no segment of an earlier render.
C1_RenderedSegments ==
  (~destroyed /\ lastRender # <<>>) => SegmentsMatch(lastRender[1].data)

\* A redraw of an existing chart that left fewer segments than entries the
\* host could bind.
C1_Witness ==
  /\ kind = "chartjs"
  /\ routine = "drew"
  /\ chart # <<>>
  /\ chart[1].updated
  /\ Len(chart[1].data.values) = 1
  /\ writes >= 2

\* ------------------------------------------------------------ claim C2
\* C2: the canvas widget constructs at most one Chart instance, only in a
\* successful initChart, and every update leaves that instance in place.
C2_SingleInstance ==
  kind = "chartjs" =>
    /\ instances <= 1
    /\ instances = 1 => initOutcome = "ok"
    /\ chart # <<>> => chart[1].id = 1 /\ instances = 1

\* The chart exists and updateChart has mutated it after an input change.
C2_Witness ==
  /\ kind = "chartjs"
  /\ chart # <<>>
  /\ chart[1].updated
  /\ routine = "drew"
  /\ writes >= 1
  /\ instances = 1

\* ------------------------------------------------------------ claim C3
\* C3: once the widget is destroyed no step draws on the surface or emits a
\* click event, the chart reference is null, its click subscription is over
\* and the svg holds no drawn element.
C3_TeardownFinal ==
  destroyed =>
    /\ routine # "drew"
    /\ emitted = <<>>
    /\ chart = <<>>
    /\ ~subscribed
    /\ SvgArcs(svg) = <<>>

\* A pointer click arrives at a destroyed canvas widget whose chart existed,
\* while an input change is still pending.
C3_Witness ==
  /\ kind = "chartjs"
  /\ destroyed
  /\ initOutcome = "ok"
  /\ dirty
  /\ click.part = "canvas"
  /\ click.dead

\* ------------------------------------------------------------ claim C4
\* C4: a click on the canvas while the chart exists emits exactly one event,
\* the entry of the current data at the hit index, which is the entry the hit
\* segment was rendered from; without a hit it emits nothing.
C4_CanvasClickRoundTrip ==
  (click.part = "canvas" /\ chart # <<>>) =>
    IF click.hit > 0
    THEN /\ click.hit <= Len(inputs.data)
         /\ emitted = << inputs.data[click.hit] >>
         /\ chart[1].data.labels[click.hit] = inputs.data[click.hit].label
         /\ chart[1].data.values[click.hit] = inputs.data[click.hit].value
    ELSE emitted = <<>>

\* The second segment of an updated chart was hit and an event emitted.
C4_Witness ==
  /\ click.part = "canvas"
  /\ click.hit = 2
  /\ chart # <<>>
  /\ chart[1].updated
  /\ Len(emitted) = 1

ValuesOf(data) == [i \in 1..Len(data) |-> data[i].value]

\* The integer p with p - 1/2 <= 100 * v / total < p + 1/2.
NearestPct(v, total) ==
  CHOOSE p \in 0..100 :
    2 * p * total - total <= 200 * v /\ 200 * v < 2 * p * total + total

ExpectedText(item, total, fmt) ==
  CASE fmt = "value" -> Num(item.value)
    [] fmt = "percentage" -> Str(ToString(NearestPct(item.value, total)) \o "%")
    [] fmt = "label-value" -> Str(item.label \o ": " \o ToString(item.value))
    [] fmt = "label-percentage" ->
         Str(item.label \o ": " \o ToString(NearestPct(item.value, total)) \o "%")
    [] OTHER -> Str(item.label)

\* C6: for a dataset with a positive total every inline label text is the raw
\* value, "pct%", "label: value", "label: pct%" or the raw label as labelFormat
\* says (the label for any other format; the value and label formats also when
\* the total is zero), pct being value / total * 100 rounded to the nearest
\* integer; values 30, 50, 20 read "30%", "50%", "20%" under percentage.
C6_InlineLabelText ==
  LET data == inputs.data
      total == SumSeq(ValuesOf(data))
      fmt == inputs.labelFormat
  IN /\ \A i \in 1..Len(canvasLabels) :
          (total > 0 \/ fmt \notin {"percentage", "label-percentage"}) =>
            canvasLabels[i].text = ExpectedText(data[i], total, fmt)
     /\ ( /\ ValuesOf(data) = << 30, 50, 20 >>
          /\ fmt = "percentage"
          /\ Len(canvasLabels) = 3 ) =>
          [i \in 1..3 |-> canvasLabels[i].text.str] = << "30%", "50%", "20%" >>

\* The three percentage labels of values 30, 50, 20 have been drawn.
C6_Witness ==
  /\ ValuesOf(inputs.data) = << 30, 50, 20 >>
  /\ inputs.labelFormat = "percentage"
  /\ Len(canvasLabels) = 3

\* ------------------------------------------------------------ claim C7
\* C7 as stated: a label is displayed exactly when showInlineLabels is true
\* and the value is at least 5% of the total.
C7_DisplayedIffFivePercent ==
  LET vs == ValuesOf(inputs.data)
  IN \A i \in 1..Len(canvasLabels) :
       canvasLabels[i].shown <=>
         (inputs.showInlineLabels /\ 100 * vs[i] >= MinSharePct * SumSeq(vs))

\* C7 amended: a label is displayed exactly when showInlineLabels is true,
\* the total of the dataset is not zero and the value is at least 5% of it.
C7_InlineLabelVisibility ==
  LET vs == ValuesOf(inputs.data)
      total == SumSeq(vs)
  IN \A i \in 1..Len(canvasLabels) :
       /\ canvasLabels[i].shown <=>
            (inputs.showInlineLabels /\ total # 0 /\ 100 * vs[i] >= MinSharePct * total)
       /\ 100 * vs[i] < MinSharePct * total => ~canvasLabels[i].shown
       /\ ~inputs.showInlineLabels => ~canvasLabels[i].shown

\* A segment of exactly 5% is labelled next to one of 95%, and in another
\* dataset a segment below 5% is not: here the first of the two cases.
C7_Witness ==
  /\ inputs.showInlineLabels
  /\ ValuesOf(inputs.data) = << 1, 19, 0 >>
  /\ Len(canvasLabels) = 3
  /\ canvasLabels[1].shown
  /\ ~canvasLabels[3].shown

\* ------------------------------------------------------------ claim C8
\* C8: after the one initChart attempt failed, the canvas widget has no chart
\* and no click subscription, has raised no error, never rendered, draws and
\* emits nothing in any later step, and the attempt is not repeated.
C8_FailedInitInert ==
  /\ [](initOutcome = "failed" =>
          /\ chart = <<>>
          /\ instances = 0
          /\ ~subscribed
          /\ ~threw
          /\ lastRender = <<>>
          /\ canvasLabels = <<>>
          /\ routine # "drew"
          /\ emitted = <<>>)
  /\ [][initOutcome = "failed" => initOutcome' = "failed"]_vars

\* After the failure and a click, a later input change ran the effect, whose
\* updateChart did nothing.
C8_Witness ==
  /\ initOutcome = "failed"
  /\ clicks > 0
  /\ writes > 0
  /\ routine = "skipped"

\* ------------------------------------------------------------ claim C9
RenderedCurrent ==
  /\ lastRender = << inputs >>
  /\ svg = << ArcGroup(inputs, kind) >>

\* C9: a run of the SVG widget's redraw routine without a drawing surface
\* changes nothing and raises nothing; in the effect-based revision a live
\* widget whose surface is available eventually renders its current inputs,
\* in the ngOnChanges revision it does so once a change is due.
C9_DeferredDraw ==
  /\ [][(runsSinceChange' = runsSinceChange + 1 /\ ~chartContainer) =>
          (routine' = "skipped" /\ svg' = svg /\ lastRender' = lastRender /\ ~threw')]_vars
  /\ [](kind = "d3" /\ chartContainer /\ ~destroyed => <>(destroyed \/ RenderedCurrent))
  /\ [](kind = "d3OnChanges" /\ chartContainer /\ dirty /\ ~destroyed =>
          <>(destroyed \/ RenderedCurrent))

\* The effect ran without a surface, tracked only chartContainer, and its
\* resolution has now scheduled the redraw.
C9_Witness ==
  /\ kind = "d3"
  /\ deps = {"chartContainer"}
  /\ chartContainer
  /\ dirty
  /\ lastRender = <<>>
  /\ writes > 0

\* ------------------------------------------------------------ claim C10
\* The rendering on the surface is the one of a single reading of the inputs.
RenderingOf(in) ==
  IF kind = "chartjs"
  THEN /\ chart # <<>>
       /\ chart[1].data.labels = MapLabel(in.data)
       /\ chart[1].data.values = MapValue(in.data)
       /\ chart[1].options.legendDisplay = in.showLegend
       /\ chart[1].options.titleText = in.title
       /\ chart[1].options.titleDisplay = (in.title # "")
       /\ chart[1].options.showInlineLabels = in.showInlineLabels
       /\ chart[1].options.labelFormat = in.labelFormat
  ELSE /\ Len(svg) = 1
       /\ svg[1].transform = << in.width \div 2, in.height \div 2 >>
       /\ svg[1].radius = Min(in.width, in.height) \div 2 - ArcMargin
       /\ [j \in 1..Len(svg[1].arcs) |-> svg[1].arcs[j].datum] = in.data

\* C10: the redraw routine runs at most once per scheduling, however many
\* input changes the burst had; every rendering shows one reading of all the
\* inputs; and between ticks it shows their latest values.
C10_Coalescing ==
  /\ runsSinceChange <= 1
  /\ (~destroyed /\ lastRender # <<>>) => RenderingOf(lastRender[1])
  /\ (~destroyed /\ lastRender # <<>> /\ phase = "idle") => lastRender[1] = inputs

\* Two inputs of an existing, never updated chart have changed since its
\* render and one effect run is due for both.
C10_Witness ==
  /\ kind = "chartjs"
  /\ chart # <<>>
  /\ ~chart[1].updated
  /\ dirty
  /\ lastRender[1].data # inputs.data
  /\ lastRender[1].labelFormat # inputs.labelFormat

\* ------------------------------------------------------------ claim C11
\* The colour the claim resolves for the slice at position j of the input:
\* its own colour, else the default palette at its positional index.
ResolvedColor(datum, j) ==
  IF datum.color # NoColor THEN datum.color
  ELSE Palette[((j - 1) % PaletteSize) + 1]

\* C11: the stroke a pointer-enter (on the shape or on its label) applies to
\* a slice is the slice's resolved colour, its own colour if present and
\* otherwise the default-palette colour at its position in the input, which
\* is the colour the slice was filled with in that render.
C11_HoverStrokeIsFill ==
  \A g \in 1..Len(svg) : \A j \in 1..Len(svg[g].arcs) :
    svg[g].arcs[j].stroke # "none" =>
      /\ svg[g].arcs[j].stroke = svg[g].arcs[j].fill
      /\ svg[g].arcs[j].stroke = ResolvedColor(svg[g].arcs[j].datum, j)

\* ------------------------------------------------------------ claim C12
\* C12: a teardown of the canvas widget raises no error and leaves the chart
\* reference null; with a chart instance it destroys that instance, once over
\* the widget's life; without one (before the first render, after a failed
\* initialization, or on a second teardown) it changes nothing.
C12_CanvasTeardownSafe ==
  /\ [](kind = "chartjs" =>
          /\ chartDestroys <= instances
          /\ destroyed => (chart = <<>> /\ chartDestroys = instances))
  /\ [][(kind = "chartjs" /\ teardowns' = teardowns + 1) =>
          /\ ~threw'
          /\ chart' = <<>>
          /\ chart # <<>> => chartDestroys' = chartDestroys + 1
          /\ chart = <<>> =>
                /\ initOutcome \in {"pending", "failed"} \/ destroyed
                /\ UNCHANGED << chartDestroys, instances, initOutcome, subscribed,
                                canvasLabels, lastRender, inputs >>]_vars

\* A second teardown of a canvas widget whose chart the first one destroyed.
C12_Witness ==
  /\ kind = "chartjs"
  /\ teardowns = 2
  /\ instances = 1
  /\ chartDestroys = 1
  /\ chart = <<>>
====
